---- MODULE Spec2Model ----
(***************************************************************************)
(* Model of the answer-alignment code of scandeval/question_answering.py   *)
(* and of the few-shot sampling, prompt construction, generative label     *)
(* resolution and prediction conversion code of                            *)
(* scandeval/sequence_classification.py.                                   *)
(*                                                                         *)
(* Python lists are sequences; the code's 0-based indices are kept in the  *)
(* state, so element i of a list s is s[i + 1].  Strings are sequences of  *)
(* character codes (65..90 upper case, 97..122 lower case, 10 line break). *)
(***************************************************************************)
EXTENDS Integers, Sequences, FiniteSets, TLC

VARIABLES
    \* prepare_train_examples
    qa_pc,            \* position in prepare_train_examples
    examples,         \* the batch: one record per Example
    windows,          \* tokenized_examples: one record per Window
    i,                \* loop index of the labelling loop (line 172)
    start_positions,  \* tokenized_examples.start_positions
    end_positions,    \* tokenized_examples.end_positions
    qa_error,         \* exception raised by prepare_train_examples, or "none"
    \* prepare_test_examples (with qa_pc, examples, windows and i)
    sample_mapping,   \* the popped overflow_to_sample_mapping
    window_ids,       \* tokenized_examples.id
    \* _create_numerical_labels
    nl_pc,            \* position in _create_numerical_labels
    nl_examples,      \* the examples dict: its "label" column
    label2id,         \* the label2id dictionary
    nl_error,         \* exception that leaves _create_numerical_labels, or "none"
    \* _extract_few_shot_examples
    fs_pc,            \* position in _extract_few_shot_examples
    fs_config,        \* dataset_config: task.labels and num_few_shot_examples
    train_dataset,    \* the training split
    shuffled_train,   \* the remaining pool
    few_shot_examples,\* the examples selected so far
    labels_next,      \* number of next() calls made on it.cycle(task.labels)
    fs_return,        \* << >> until the function returns, then <<the returned list>>
    fs_error,         \* exception that leaves _extract_few_shot_examples, or "none"
    \* _extract_labels_from_generation
    rs_pc,            \* position in _extract_labels_from_generation
    dataset_config,   \* dataset_config: id2label and prompt_label_mapping
    model_output,     \* the model output: "scores" (optional) and "sequences"
    rs_return,        \* << >> until the function returns, then <<the returned list>>
    raw_predictions,  \* the decoded phrases (line 370), << >> before
    edit_distances,   \* per phrase, the distance to every candidate (lines 378-382)
    predictions,      \* _compute_metrics: the label indices of the predictions
    rs_error,         \* exception that leaves the function, or "none"
    \* _apply_few_shot_prompt
    pr_pc,            \* position in _apply_few_shot_prompt
    pr_config,        \* dataset_config: prompt_template, prompt_prefix, prompt_label_mapping
    pr_few_shot_examples, \* the few_shot_examples argument
    pr_examples,      \* examples["text"] at the call
    pr_return,        \* << >> until the function returns, then <<examples["text"]>>
    pr_error          \* exception that leaves _apply_few_shot_prompt, or "none"

qa_vars == <<qa_pc, examples, windows, i, start_positions, end_positions, qa_error,
            sample_mapping, window_ids>>

nl_vars == <<nl_pc, nl_examples, label2id, nl_error>>

fs_vars == <<fs_pc, fs_config, train_dataset, shuffled_train, few_shot_examples,
             labels_next, fs_return, fs_error>>

rs_vars == <<rs_pc, dataset_config, model_output, rs_return, raw_predictions,
            edit_distances, predictions, rs_error>>

pr_vars == <<pr_pc, pr_config, pr_few_shot_examples, pr_examples, pr_return, pr_error>>

vars == <<qa_vars, nl_vars, fs_vars, rs_vars, pr_vars>>

----------------------------------------------------------------------------
(* Bounds of the model *)

\* largest number of labels in the batch given to _create_numerical_labels
MaxLabels == 3
\* largest number of examples in the training split
MaxTrain == 3
\* largest num_few_shot_examples
MaxFewShot == 3
\* largest number of prompts in a generation batch
MaxItems == 2
\* largest number of generated tokens per prompt
MaxSteps == 2
\* largest number of context tokens of an Example
MaxCtx == 5
\* largest number of question tokens of an Example
MaxQ == 2
\* tokenizer.model_max_length of the modelled tokenizer
ModelMaxLength == 10

----------------------------------------------------------------------------
(* Python list helpers *)

\* s[k] for a Python index 0 <= k < len(s)
At(s, k) == s[k + 1]

\* whether s[k] raises IndexError in Python (negative indices wrap once)
OutOfRange(s, k) == k >= Len(s) \/ k < 0 - Len(s)

\* s[k] for any Python index in range, negative ones counted from the end
PyAt(s, k) == IF k >= 0 THEN s[k + 1] ELSE s[Len(s) + k + 1]

\* s.index(x) for an x that occurs in s
IndexOf(s, x) == (CHOOSE k \in 1..Len(s) : s[k] = x /\ \A j \in 1..(k - 1) : s[j] # x) - 1

Min(a, b) == IF a <= b THEN a ELSE b

----------------------------------------------------------------------------
(* The tokenizer call of lines 147-156: question first, context second,   *)
(* truncation of the context only, overflow into further Windows that      *)
(* overlap by stride context tokens, padding to max_length.                *)
(* Special and padding tokens have offset (0, 0) and sequence id None,     *)
(* written -1 here; question tokens have sequence id 0, context tokens 1.  *)

\* line 140
Stride == ModelMaxLength \div 4

\* line 141
WindowLength == ModelMaxLength - Stride

\* context tokens a Window of an Example with nq question tokens can carry:
\* max_length minus the question and the three special tokens
Capacity(nq) == WindowLength - nq - 3

\* number of Windows of an Example with nq question and n context tokens
RECURSIVE WindowsFrom(_, _, _)
WindowsFrom(nq, n, j) ==
    IF j * (Capacity(nq) - Stride) + Capacity(nq) >= n
    THEN j + 1
    ELSE WindowsFrom(nq, n, j + 1)

NumWindows(ex) == WindowsFrom(ex.nq, Len(ex.context), 0)

Repeat(x, n) == [k \in 1..n |-> x]

\* offsets of the question tokens: one-character words separated by a space
QuestionOffsets(nq) == [k \in 1..nq |-> <<2 * (k - 1), 2 * (k - 1) + 1>>]

\* the j-th Window (j >= 0) of Example number s of the batch
MakeWindow(ex, s, j) ==
    LET cap == Capacity(ex.nq)
        lo == j * (cap - Stride)
        hi == Min(lo + cap, Len(ex.context))
        part == SubSeq(ex.context, lo + 1, hi)
        pad == WindowLength - (ex.nq + 3 + Len(part))
    IN  [ input_ids |-> <<"CLS">> \o Repeat("Q", ex.nq) \o <<"SEP">>
                        \o Repeat("C", Len(part)) \o <<"SEP">> \o Repeat("PAD", pad),
          offset_mapping |-> <<(<<0, 0>>)>> \o QuestionOffsets(ex.nq) \o <<(<<0, 0>>)>>
                        \o part \o <<(<<0, 0>>)>> \o Repeat(<<0, 0>>, pad),
          sequence_ids |-> <<-1>> \o Repeat(0, ex.nq) \o <<-1>>
                        \o Repeat(1, Len(part)) \o <<-1>> \o Repeat(-1, pad),
          overflow_to_sample_mapping |-> s ]

ExampleWindows(ex, s) == [j \in 1..NumWindows(ex) |-> MakeWindow(ex, s, j - 1)]

\* the Windows of a whole batch, in the order of the Examples
RECURSIVE Tokenizer(_, _)
Tokenizer(batch, s) ==
    IF s >= Len(batch)
    THEN << >>
    ELSE ExampleWindows(At(batch, s), s) \o Tokenizer(batch, s + 1)

----------------------------------------------------------------------------
(* prepare_train_examples, body of the labelling loop (lines 172-228) *)

\* line 176
ClsIndex(w) == IndexOf(w.input_ids, "CLS")

\* lines 198-200
RECURSIVE FirstContextScan(_, _)
FirstContextScan(sequence_ids, token_start_index) ==
    IF At(sequence_ids, token_start_index) # 1
    THEN FirstContextScan(sequence_ids, token_start_index + 1)
    ELSE token_start_index

\* lines 203-205
RECURSIVE LastContextScan(_, _)
LastContextScan(sequence_ids, token_end_index) ==
    IF At(sequence_ids, token_end_index) # 1
    THEN LastContextScan(sequence_ids, token_end_index - 1)
    ELSE token_end_index

\* mutant of AnswerOutOfSpan: the end of the answer is not looked at
AnswerOutOfSpanStartOnly(offsets, token_start_index, token_end_index, start_char, end_char) ==
    ~ (At(offsets, token_start_index)[1] <= start_char)

\* lines 209-212: the condition under which the Window is labelled with cls_index
AnswerOutOfSpan(offsets, token_start_index, token_end_index, start_char, end_char) ==
    ~ (At(offsets, token_start_index)[1] <= start_char
       /\ At(offsets, token_end_index)[2] >= end_char)

\* lines 220-224
RECURSIVE ForwardScan(_, _, _)
ForwardScan(offsets, token_start_index, start_char) ==
    IF token_start_index < Len(offsets)
       /\ At(offsets, token_start_index)[1] <= start_char
    THEN ForwardScan(offsets, token_start_index + 1, start_char)
    ELSE token_start_index

\* lines 226-227; the result is the index the loop stops at, or the record of
\* the IndexError that offsets[token_end_index] raises
RECURSIVE BackwardScan(_, _, _)
BackwardScan(offsets, token_end_index, end_char) ==
    IF OutOfRange(offsets, token_end_index)
    THEN [ok |-> FALSE, index |-> token_end_index]
    ELSE IF PyAt(offsets, token_end_index)[2] >= end_char
         THEN BackwardScan(offsets, token_end_index - 1, end_char)
         ELSE [ok |-> TRUE, index |-> token_end_index]

\* lines 185-228 for one Window w and the answers of its Example:
\* what is appended to start_positions and end_positions, or the IndexError
LabelWindow(w, answers) ==
    LET cls_index == ClsIndex(w)
        offsets == w.offset_mapping
    IN  IF Len(answers.answer_start) = 0
        THEN [raised |-> "none", start |-> <<cls_index>>, end |-> <<cls_index>>]
        ELSE
          LET start_char == answers.answer_start[1]
              end_char == start_char + Len(answers.text[1])
              token_start_index == FirstContextScan(w.sequence_ids, 0)
              token_end_index == LastContextScan(w.sequence_ids, Len(w.input_ids) - 1)
          IN  IF AnswerOutOfSpan(offsets, token_start_index, token_end_index,
                                 start_char, end_char)
              THEN [raised |-> "none", start |-> <<cls_index>>, end |-> <<cls_index>>]
              ELSE
                LET fwd == ForwardScan(offsets, token_start_index, start_char)
                    bwd == BackwardScan(offsets, token_end_index, end_char)
                IN  IF bwd.ok
                    THEN [raised |-> "none", start |-> <<fwd - 1>>,
                          end |-> <<bwd.index + 1>>]
                    ELSE [raised |-> "IndexError", start |-> <<fwd - 1>>,
                          end |-> << >>]

\* mutant of AnswersOfWindow: the overflow-to-sample mapping is not used
AnswersOfFirstSample(batch, w) == At(batch, 0).answers

\* lines 184-185: the answers of the Example the i-th Window comes from
AnswersOfWindow(batch, w) == At(batch, w.overflow_to_sample_mapping).answers

----------------------------------------------------------------------------
(* Inputs of prepare_train_examples *)

\* offsets of n context tokens of two characters each, gap characters apart
\* (gap = 1: words separated by a space; gap = 0: sub-word pieces)
ContextOffsets(n, gap) ==
    [k \in 1..n |-> <<(k - 1) * (2 + gap), (k - 1) * (2 + gap) + 2>>]

ContextLength(context) == context[Len(context)][2]

NoAnswers == [answer_start |-> << >>, text |-> << >>]

\* one answer span (start_char, text) with text of the given length
OneAnswer(start_char, length) ==
    [answer_start |-> <<start_char>>, text |-> <<Repeat(120, length)>>]

\* the answer lists of an Example: empty, or one span lying inside the context
AnswerLists(context) ==
    {NoAnswers} \cup
    { OneAnswer(c, l) : c \in 0..(ContextLength(context) - 1),
                        l \in 0..ContextLength(context) }

Contexts == { ContextOffsets(n, gap) : n \in 1..MaxCtx, gap \in 0..1 }

\* the tokenizer needs room for more context tokens than the stride
Examples ==
    { ex \in UNION { [nq : {nq}, context : {c}, answers : AnswerLists(c)]
                       : nq \in 1..MaxQ, c \in Contexts } :
        /\ Capacity(ex.nq) > Stride
        /\ \A k \in 1..Len(ex.answers.answer_start) :
              ex.answers.answer_start[k] + Len(ex.answers.text[k])
                 <= ContextLength(ex.context) }

\* Examples that may precede the Example under study in the batch
Fillers ==
    { [nq |-> 1, context |-> ContextOffsets(1, 1), answers |-> NoAnswers],
      [nq |-> 1, context |-> ContextOffsets(MaxCtx, 0), answers |-> OneAnswer(2, 2)] }

Batches == { <<ex>> : ex \in Examples }
           \cup { <<f, ex>> : f \in Fillers, ex \in Examples }

----------------------------------------------------------------------------
(* prepare_train_examples as a state machine *)

\* the state of a function that is not called in a behaviour
NLIdle ==
    /\ nl_pc = "idle"
    /\ nl_examples = << >>
    /\ label2id = << >>
    /\ nl_error = [type |-> "none", message |-> << >>]

FSIdle ==
    /\ fs_pc = "idle"
    /\ fs_config = << >>
    /\ train_dataset = << >>
    /\ shuffled_train = << >>
    /\ few_shot_examples = << >>
    /\ labels_next = 0
    /\ fs_return = << >>
    /\ fs_error = "none"

PRIdle ==
    /\ pr_pc = "idle"
    /\ pr_config = << >>
    /\ pr_few_shot_examples = << >>
    /\ pr_examples = << >>
    /\ pr_return = << >>
    /\ pr_error = "none"

RSIdle ==
    /\ rs_pc = "idle"
    /\ dataset_config = << >>
    /\ model_output = << >>
    /\ rs_return = << >>
    /\ raw_predictions = << >>
    /\ edit_distances = << >>
    /\ predictions = << >>
    /\ rs_error = "none"

QAIdle ==
    /\ qa_pc = "idle"
    /\ examples = << >>
    /\ windows = << >>
    /\ i = 0
    /\ start_positions = << >>
    /\ end_positions = << >>
    /\ sample_mapping = << >>
    /\ window_ids = << >>
    /\ qa_error = "none"

QAInit ==
    /\ qa_pc = "start"
    /\ examples \in Batches
    /\ windows = << >>
    /\ i = 0
    /\ start_positions = << >>
    /\ end_positions = << >>
    /\ sample_mapping = << >>
    /\ window_ids = << >>
    /\ qa_error = "none"

\* lines 137-170: tokenize the batch, create the two empty lists (a question is
\* given by its number of tokens, which its leading whitespace does not change)
TrainTokenize ==
    /\ qa_pc = "start"
    /\ windows' = Tokenizer(examples, 0)
    /\ start_positions' = << >>
    /\ end_positions' = << >>
    /\ i' = 0
    /\ qa_pc' = "loop"
    /\ UNCHANGED <<examples, qa_error, sample_mapping, window_ids>>
    /\ UNCHANGED <<nl_vars, fs_vars, rs_vars, pr_vars>>

\* lines 172-228: one iteration of the labelling loop
TrainLabelWindow ==
    /\ qa_pc = "loop"
    /\ i < Len(windows)
    /\ LET r == LabelWindow(At(windows, i), AnswersOfWindow(examples, At(windows, i)))
       IN  /\ start_positions' = start_positions \o r.start
           /\ end_positions' = end_positions \o r.end
           /\ qa_error' = r.raised
           /\ IF r.raised = "none"
              THEN /\ i' = i + 1
                   /\ qa_pc' = "loop"
              ELSE /\ i' = i
                   /\ qa_pc' = "raised"
    /\ UNCHANGED <<examples, windows, sample_mapping, window_ids>>
    /\ UNCHANGED <<nl_vars, fs_vars, rs_vars, pr_vars>>

\* line 230
TrainReturn ==
    /\ qa_pc = "loop"
    /\ i = Len(windows)
    /\ qa_pc' = "returned"
    /\ UNCHANGED <<examples, windows, i, start_positions, end_positions, qa_error,
                   sample_mapping, window_ids>>
    /\ UNCHANGED <<nl_vars, fs_vars, rs_vars, pr_vars>>

QANext == TrainTokenize \/ TrainLabelWindow \/ TrainReturn

\* the function is called alone: the other functions stay idle
InitQA == QAInit /\ NLIdle /\ FSIdle /\ RSIdle /\ PRIdle

SpecQA == InitQA /\ [][QANext]_vars

----------------------------------------------------------------------------
(* Properties of prepare_train_examples *)

\* Windows that have both positions appended
Labelled == 0..(Len(end_positions) - 1)

WindowAt(j) == At(windows, j)

\* the Example the j-th Window was cut from
SourceOf(j) == At(examples, WindowAt(j).overflow_to_sample_mapping)

HasAnswer(ex) == Len(ex.answers.answer_start) > 0

StartChar(ex) == ex.answers.answer_start[1]

EndChar(ex) == ex.answers.answer_start[1] + Len(ex.answers.text[1])

\* token indices of the context tokens of the j-th Window
ContextTokens(j) ==
    { k \in 0..(Len(WindowAt(j).sequence_ids) - 1) : At(WindowAt(j).sequence_ids, k) = 1 }

FirstContextToken(j) == CHOOSE k \in ContextTokens(j) : \A m \in ContextTokens(j) : k <= m

LastContextToken(j) == CHOOSE k \in ContextTokens(j) : \A m \in ContextTokens(j) : m <= k

\* index of the CLS token of the j-th Window
ClsTokenOf(j) ==
    CHOOSE k \in 0..(Len(WindowAt(j).input_ids) - 1) : At(WindowAt(j).input_ids, k) = "CLS"

\* the j-th Window carries the no-answer sentinel
IsSentinel(j) ==
    /\ At(start_positions, j) = ClsTokenOf(j)
    /\ At(end_positions, j) = ClsTokenOf(j)

\* the context tokens of the j-th Window fully contain the answer's characters
ContainsAnswer(j) ==
    /\ At(WindowAt(j).offset_mapping, FirstContextToken(j))[1] <= StartChar(SourceOf(j))
    /\ At(WindowAt(j).offset_mapping, LastContextToken(j))[2] >= EndChar(SourceOf(j))

\* C1 (as claimed): every Window without the sentinel has start <= end
C1_StartNotAfterEnd ==
    \A j \in Labelled :
        ~ IsSentinel(j) => At(start_positions, j) <= At(end_positions, j)

\* the positions of the j-th Window decode to a character range of the context
\* that contains the answer's start character
DecodesToAnswerStart(j) ==
    /\ ~ IsSentinel(j)
    /\ At(start_positions, j) \in ContextTokens(j)
    /\ At(end_positions, j) \in ContextTokens(j)
    /\ At(WindowAt(j).offset_mapping, At(start_positions, j))[1] <= StartChar(SourceOf(j))
    /\ StartChar(SourceOf(j)) <= At(WindowAt(j).offset_mapping, At(end_positions, j))[2]
    /\ At(WindowAt(j).offset_mapping, At(start_positions, j))[1]
          <= At(WindowAt(j).offset_mapping, At(end_positions, j))[2]

\* C2 (as claimed): once prepare_train_examples has returned, every Example with
\* an answer span inside its context has a Window whose positions decode to a
\* range of the context containing the answer's start character
C2_AnswerRecoverable ==
    qa_pc = "returned" =>
        \A s \in 0..(Len(examples) - 1) :
            HasAnswer(At(examples, s)) =>
                \E j \in Labelled :
                    /\ WindowAt(j).overflow_to_sample_mapping = s
                    /\ DecodesToAnswerStart(j)

\* C3: a Window of an Example with answers whose context tokens do not fully
\* contain the answer's character range gets the sentinel, and a Window whose
\* context tokens do contain it does not get the sentinel
C3_SentinelIffNotContained ==
    \A j \in Labelled :
        HasAnswer(SourceOf(j)) => (IsSentinel(j) <=> ~ ContainsAnswer(j))

\* C3 witness: an Example with answers was cut into a Window that contains the
\* answer and a Window that does not, and both are labelled
C3_Witness ==
    /\ qa_pc = "returned"
    /\ \E j1 \in Labelled, j2 \in Labelled :
          /\ WindowAt(j1).overflow_to_sample_mapping = WindowAt(j2).overflow_to_sample_mapping
          /\ HasAnswer(SourceOf(j1))
          /\ ContainsAnswer(j1) /\ ~ IsSentinel(j1)
          /\ ~ ContainsAnswer(j2) /\ IsSentinel(j2)

\* C4: every Window of an Example with an empty answer list has
\* start_position = end_position = index of its CLS token
C4_NoAnswerDefault ==
    \A j \in Labelled :
        ~ HasAnswer(SourceOf(j)) => IsSentinel(j)

\* C4 witness: an Example without answers overflowed into several Windows, all
\* of them labelled, in a batch whose other Example has an answer
C4_Witness ==
    /\ qa_pc = "returned"
    /\ \E j1 \in Labelled, j2 \in Labelled :
          /\ j1 # j2
          /\ WindowAt(j1).overflow_to_sample_mapping = WindowAt(j2).overflow_to_sample_mapping
          /\ ~ HasAnswer(SourceOf(j1))
          /\ IsSentinel(j1) /\ IsSentinel(j2)
    /\ \E j \in Labelled : HasAnswer(SourceOf(j)) /\ ~ IsSentinel(j)

----------------------------------------------------------------------------
(* Strings *)

\* str.lower()
Lower(s) == [k \in 1..Len(s) |-> IF s[k] \in 65..90 THEN s[k] + 32 ELSE s[k]]

----------------------------------------------------------------------------
(* _create_numerical_labels (lines 96-104) *)

\* Python values of the two types met in examples["label"]
PyStr(s) == [type |-> "str", value |-> s]

PyList(l) == [type |-> "list", value |-> l]

\* v.lower() for a Python value v: only str has the method
LowerMethod(v) ==
    IF v.type = "str"
    THEN [raised |-> "none", value |-> Lower(v.value)]
    ELSE [raised |-> "AttributeError", value |-> << >>]

\* line 98: whether every label2id[lbl.lower()] finds its key
AllLabelsKnown(labels, l2i) == \A k \in 1..Len(labels) : Lower(labels[k]) \in DOMAIN l2i

\* lines 97-104: the examples afterwards and the exception that leaves the
\* function.  The handler of KeyError formats examples['label'].lower() into
\* the message (line 101) before InvalidBenchmark is constructed.
CreateNumericalLabels(ex, l2i) ==
    IF AllLabelsKnown(ex.label.value, l2i)
    THEN [ examples |-> [label |-> PyList([k \in 1..Len(ex.label.value) |->
                                              l2i[Lower(ex.label.value[k])]])],
           raised |-> [type |-> "none", message |-> << >>] ]
    ELSE LET shown == LowerMethod(ex.label)
         IN  IF shown.raised = "none"
             THEN [ examples |-> ex,
                    raised |-> [type |-> "InvalidBenchmark",
                                message |-> <<shown.value, l2i>>] ]
             ELSE [ examples |-> ex,
                    raised |-> [type |-> shown.raised, message |-> << >>] ]

\* label strings of the dataset: "a", "b", "A", "c"
DatasetLabels == { <<97>>, <<98>>, <<65>>, <<99>> }

\* label2id dictionaries of the model configuration
Label2Ids ==
    { (<<97>> :> 0) @@ (<<98>> :> 1),
      (<<97>> :> 0) @@ (<<98>> :> 1) @@ (<<99>> :> 2) }

LabelColumns == UNION { [1..n -> DatasetLabels] : n \in 0..MaxLabels }

NLInit ==
    /\ nl_pc = "start"
    /\ nl_examples \in { [label |-> PyList(col)] : col \in LabelColumns }
    /\ label2id \in Label2Ids
    /\ nl_error = [type |-> "none", message |-> << >>]

\* lines 96-104, the call as one step
Numericalise ==
    /\ nl_pc = "start"
    /\ LET r == CreateNumericalLabels(nl_examples, label2id)
       IN  /\ nl_examples' = r.examples
           /\ nl_error' = r.raised
           /\ nl_pc' = IF r.raised.type = "none" THEN "returned" ELSE "raised"
    /\ UNCHANGED label2id
    /\ UNCHANGED <<qa_vars, fs_vars, rs_vars, pr_vars>>

NLNext == Numericalise

\* the function is called alone: the other functions stay idle
InitLabels == NLInit /\ QAIdle /\ FSIdle /\ RSIdle /\ PRIdle

SpecLabels == InitLabels /\ [][NLNext]_vars

\* a label of the batch whose lower-case form is no key of label2id
UnknownLabels(col, l2i) == { k \in 1..Len(col) : Lower(col[k]) \notin DOMAIN l2i }

\* C6 (as claimed): when a label's lower-case form is absent from label2id, the
\* call fails with InvalidBenchmark, its message names that label and the whole
\* label2id mapping, and the labels are not replaced
C6_InvalidBenchmarkRaised ==
    [][ (nl_pc = "start" /\ UnknownLabels(nl_examples.label.value, label2id) # {})
        => /\ nl_pc' = "raised"
           /\ nl_error'.type = "InvalidBenchmark"
           /\ Len(nl_error'.message) = 2
           /\ nl_error'.message[2] = label2id
           /\ \E k \in UnknownLabels(nl_examples.label.value, label2id) :
                 nl_error'.message[1] = Lower(nl_examples.label.value[k])
           /\ nl_examples' = nl_examples ]_vars

----------------------------------------------------------------------------
(* _extract_few_shot_examples (lines 198-213) *)

\* the orders a seeded shuffle can leave a list in
Shuffles(s) == { [k \in 1..Len(s) |-> s[p[k]]] : p \in Permutations(1..Len(s)) }

\* mutant of NextLabel: the iterator is created anew at every step
NextLabelRestarting(labels, calls) == labels[1]

\* lines 200, 203: the value of the (calls + 1)-th next() on it.cycle(labels)
NextLabel(labels, calls) == labels[(calls % Len(labels)) + 1]

\* mutant of LabelFilter: with no example of the label, any example will do
LabelFilterOrAny(pool, label) ==
    IF SelectSeq(pool, LAMBDA x : Lower(x.label) = Lower(label)) = << >>
    THEN pool
    ELSE SelectSeq(pool, LAMBDA x : Lower(x.label) = Lower(label))

\* lines 204-205: the examples of the pool with the label, in the pool's order
LabelFilter(pool, label) == SelectSeq(pool, LAMBDA x : Lower(x.label) = Lower(label))

\* mutant of TextFilter: only the selected example itself is removed
TextFilterSameExample(pool, example) == SelectSeq(pool, LAMBDA x : x # example)

\* lines 208-210: the pool without the examples that have the selected text
TextFilter(pool, example) == SelectSeq(pool, LAMBDA x : x.text # example.text)

\* line 206: .select(range(1))[0], an IndexError on a dataset without rows
SelectFirst(ds) ==
    IF Len(ds) = 0
    THEN [raised |-> "IndexError", example |-> << >>]
    ELSE [raised |-> "none", example |-> <<ds[1]>>]

\* texts "x", "y", "z" and labels "a", "b", "A" of the training examples
TrainItems ==
    << [text |-> <<120>>, label |-> <<97>>], [text |-> <<120>>, label |-> <<98>>],
       [text |-> <<120>>, label |-> <<65>>], [text |-> <<121>>, label |-> <<97>>],
       [text |-> <<121>>, label |-> <<98>>], [text |-> <<121>>, label |-> <<65>>],
       [text |-> <<122>>, label |-> <<97>>], [text |-> <<122>>, label |-> <<98>>],
       [text |-> <<122>>, label |-> <<65>>] >>

\* the training splits, each listed once whatever the order of its rows
TrainDatasets ==
    UNION { { [k \in 1..n |-> TrainItems[f[k]]] :
                f \in { g \in [1..n -> 1..Len(TrainItems)] :
                          \A k \in 1..(n - 1) : g[k] <= g[k + 1] } }
            : n \in 0..MaxTrain }

\* task.labels: ("B", "a") and ("a", "b", "c")
TaskLabels == { << <<66>>, <<97>> >>, << <<97>>, <<98>>, <<99>> >> }

FSInit ==
    /\ fs_pc = "start"
    /\ fs_config \in [labels : TaskLabels, num_few_shot_examples : 0..MaxFewShot]
    /\ train_dataset \in TrainDatasets
    /\ shuffled_train = << >>
    /\ few_shot_examples = << >>
    /\ labels_next = 0
    /\ fs_return = << >>
    /\ fs_error = "none"

\* lines 198-201
FewShotShuffle ==
    /\ fs_pc = "start"
    /\ shuffled_train' \in Shuffles(train_dataset)
    /\ few_shot_examples' = << >>
    /\ labels_next' = 0
    /\ fs_pc' = "loop"
    /\ UNCHANGED <<fs_config, train_dataset, fs_return, fs_error>>
    /\ UNCHANGED <<qa_vars, nl_vars, rs_vars, pr_vars>>

\* lines 202-210: one iteration of the selection loop
FewShotPick ==
    /\ fs_pc = "loop"
    /\ Len(few_shot_examples) < fs_config.num_few_shot_examples
    /\ LET label == NextLabel(fs_config.labels, labels_next)
           picked == SelectFirst(LabelFilter(shuffled_train, label))
       IN  /\ labels_next' = labels_next + 1
           /\ fs_error' = picked.raised
           /\ IF picked.raised = "none"
              THEN /\ few_shot_examples' = Append(few_shot_examples, picked.example[1])
                   /\ shuffled_train' = TextFilter(shuffled_train, picked.example[1])
                   /\ fs_pc' = "loop"
              ELSE /\ fs_pc' = "raised"
                   /\ UNCHANGED <<few_shot_examples, shuffled_train>>
    /\ UNCHANGED <<fs_config, train_dataset, fs_return>>
    /\ UNCHANGED <<qa_vars, nl_vars, rs_vars, pr_vars>>

\* lines 211-213
FewShotReturn ==
    /\ fs_pc = "loop"
    /\ ~ (Len(few_shot_examples) < fs_config.num_few_shot_examples)
    /\ few_shot_examples' \in Shuffles(few_shot_examples)
    /\ fs_return' = <<few_shot_examples'>>
    /\ fs_pc' = "returned"
    /\ UNCHANGED <<fs_config, train_dataset, shuffled_train, labels_next, fs_error>>
    /\ UNCHANGED <<qa_vars, nl_vars, rs_vars, pr_vars>>

FSNext == FewShotShuffle \/ FewShotPick \/ FewShotReturn

\* the function is called alone: the other functions stay idle
InitFewShot == FSInit /\ QAIdle /\ NLIdle /\ RSIdle /\ PRIdle

SpecFewShot == InitFewShot /\ [][FSNext]_vars

----------------------------------------------------------------------------
(* Properties of _extract_few_shot_examples *)

\* C7: the returned list holds exactly num_few_shot_examples examples and no
\* two of them have the same text
C7_ExactlyKDistinctTexts ==
    fs_pc = "returned" =>
        /\ Len(fs_return[1]) = fs_config.num_few_shot_examples
        /\ \A a \in 1..Len(fs_return[1]), b \in 1..Len(fs_return[1]) :
              a # b => fs_return[1][a].text # fs_return[1][b].text

\* C7 witness: a list of at least two examples was returned from a training
\* split that holds one text under two different labels
C7_Witness ==
    /\ fs_pc = "returned"
    /\ Len(fs_return[1]) >= 2
    /\ \E a \in 1..Len(train_dataset), b \in 1..Len(train_dataset) :
          /\ train_dataset[a].text = train_dataset[b].text
          /\ Lower(train_dataset[a].label) # Lower(train_dataset[b].label)
          /\ \E c \in 1..Len(fs_return[1]) : fs_return[1][c].text = train_dataset[a].text

\* how often a label occurs in a list of examples, compared case-insensitively
LabelCount(list, label) ==
    Cardinality({ k \in 1..Len(list) : Lower(list[k].label) = Lower(label) })

\* C8: in the returned list of k examples every one of the n task labels occurs
\* floor(k/n) or ceil(k/n) times
C8_Balanced ==
    fs_pc = "returned" =>
        LET k == fs_config.num_few_shot_examples
            n == Len(fs_config.labels)
        IN  \A l \in 1..n :
                \/ LabelCount(fs_return[1], fs_config.labels[l]) = k \div n
                \/ LabelCount(fs_return[1], fs_config.labels[l]) = (k + n - 1) \div n

\* C8 witness: k is no multiple of n and larger than n, and a returned example
\* carries its label in another case than the task label
C8_Witness ==
    /\ fs_pc = "returned"
    /\ fs_config.num_few_shot_examples > Len(fs_config.labels)
    /\ fs_config.num_few_shot_examples % Len(fs_config.labels) # 0
    /\ \E c \in 1..Len(fs_return[1]) :
          \A l \in 1..Len(fs_config.labels) : fs_return[1][c].label # fs_config.labels[l]

\* the label whose turn it is after the examples selected so far
LabelInTurn == fs_config.labels[(Len(few_shot_examples) % Len(fs_config.labels)) + 1]

\* the selection is not complete and the remaining pool has no example of the
\* label whose turn it is
Starved ==
    /\ fs_pc = "loop"
    /\ Len(few_shot_examples) < fs_config.num_few_shot_examples
    /\ \A k \in 1..Len(shuffled_train) :
          Lower(shuffled_train[k].label) # Lower(LabelInTurn)

\* C9: a step that finds no remaining example of the label in turn raises an
\* error, selects nothing in its place and returns no list, and after the
\* error nothing is returned
C9_StarvationRaises ==
    [][ /\ Starved => /\ fs_pc' = "raised"
                      /\ fs_error' # "none"
                      /\ few_shot_examples' = few_shot_examples
                      /\ fs_return' = << >>
        /\ fs_pc = "raised" => (fs_pc' = "raised" /\ fs_return' = << >>) ]_vars

\* C9 witness: the error was raised after a first example had been selected,
\* with examples of other labels still in the pool
C9_Witness ==
    /\ fs_pc = "raised"
    /\ fs_error = "IndexError"
    /\ Len(few_shot_examples) >= 1
    /\ Len(shuffled_train) >= 1
    /\ fs_return = << >>

----------------------------------------------------------------------------
(* The tokenizer of the generative model: one token per character, with    *)
(* the vocabulary "a" (id 0), "b" (id 1), line break (id 2).               *)

Vocabulary == << <<97>>, <<98>>, <<10>> >>

TokenIds == 0..(Len(Vocabulary) - 1)

\* lines 336-338: tokenizer([text], add_special_tokens=False)["input_ids"][0]
TokenizeText(text) ==
    [k \in 1..Len(text) |-> (CHOOSE v \in 1..Len(Vocabulary) : Vocabulary[v] = <<text[k]>>) - 1]

\* tokenizer.decode of a list of token ids
RECURSIVE Decode(_)
Decode(ids) == IF ids = << >> THEN << >> ELSE Vocabulary[Head(ids) + 1] \o Decode(Tail(ids))

----------------------------------------------------------------------------
(* get_closest_logprobs_labels (lines 321-345) *)

\* lines 321-323
PromptCandidates(config) ==
    [k \in 1..Len(config.id2label) |-> config.prompt_label_mapping[config.id2label[k]]]

\* mutant of Stack: torch.stack along dim=0, steps first
StackStepsFirst(generation_logprobs) == generation_logprobs

\* line 326: torch.stack(generation_logprobs, dim=1), from one [batch, vocab]
\* tensor per step to [batch, step, vocab]
Stack(generation_logprobs) ==
    [b \in 1..Len(generation_logprobs[1]) |->
        [t \in 1..Len(generation_logprobs) |-> generation_logprobs[t][b]]]

\* mutant of CandidateLabelId: token id 0 for a label without tokens
CandidateLabelIdDefault(tokenised) ==
    [raised |-> "none", id |-> <<IF Len(tokenised) = 0 THEN 0 ELSE tokenised[1]>>]

\* lines 336-339: candidate_label_ids[0][0], an IndexError without tokens
CandidateLabelId(tokenised) ==
    IF Len(tokenised) = 0
    THEN [raised |-> "IndexError", id |-> << >>]
    ELSE [raised |-> "none", id |-> <<tokenised[1]>>]

\* line 340 for every candidate: pred_logprobs[:, idx] = all_logprobs[:, 0, id]
PredLogprobs(all_logprobs, ids) ==
    [b \in 1..Len(all_logprobs) |-> [idx \in 1..Len(ids) |-> all_logprobs[b][1][ids[idx]]]]

\* mutant of ArgMax: the last of the maximal entries
ArgMaxLast(row) ==
    (CHOOSE k \in 1..Len(row) :
        /\ \A j \in 1..Len(row) : row[j] <= row[k]
        /\ \A j \in (k + 1)..Len(row) : row[j] < row[k]) - 1

\* line 343: torch.argmax, the index of the first maximal entry
RECURSIVE ArgMaxFrom(_, _, _)
ArgMaxFrom(row, k, best) ==
    IF k > Len(row)
    THEN best - 1
    ELSE ArgMaxFrom(row, k + 1, IF row[k] > row[best] THEN k ELSE best)

ArgMax(row) == ArgMaxFrom(row, 2, 1)

\* lines 321-345: the returned labels, or the exception of the loop
GetClosestLogprobsLabels(generation_logprobs, config) ==
    LET candidate_labels == PromptCandidates(config)
        all_logprobs == Stack(generation_logprobs)
        looked_up == [idx \in 1..Len(candidate_labels) |->
                         CandidateLabelId(TokenizeText(Lower(candidate_labels[idx])))]
    IN  IF \E idx \in 1..Len(candidate_labels) : looked_up[idx].raised # "none"
        THEN [raised |-> "IndexError", labels |-> << >>]
        ELSE LET ids == [idx \in 1..Len(candidate_labels) |-> looked_up[idx].id[1]]
                 pred_logprobs == PredLogprobs(all_logprobs, ids)
                 predicted_label_ids == [b \in 1..Len(pred_logprobs) |->
                                            ArgMax(pred_logprobs[b])]
             IN  [raised |-> "none",
                  labels |-> [b \in 1..Len(predicted_label_ids) |->
                                 At(candidate_labels, predicted_label_ids[b])]]

----------------------------------------------------------------------------
(* get_closest_word_edit_labels (lines 370-385) *)

\* the text up to the first line break, the stop marker of the task
RECURSIVE UpToStop(_)
UpToStop(text) ==
    IF text = << >> \/ Head(text) = 10
    THEN << >>
    ELSE <<Head(text)>> \o UpToStop(Tail(text))

\* lines 370-374, extract_raw_predictions: decode each generated sequence and
\* cut it at the stop marker
ExtractRawPredictions(generated_sequences) ==
    [b \in 1..Len(generated_sequences) |-> UpToStop(Decode(generated_sequences[b]))]

Min3(a, b, c) == Min(a, Min(b, c))

\* mutant of SubstitutionCost: a substitution counts as a deletion and an insertion
SubstitutionCostTwo(c, d) == IF c = d THEN 0 ELSE 2

\* line 380: Levenshtein.distance counts a substitution as one edit
SubstitutionCost(c, d) == IF c = d THEN 0 ELSE 1

\* one row of the edit-distance table: the distances of a prefix of s1 ending
\* in character c to every prefix of s2, from the row of the shorter prefix
RECURSIVE DistanceRow(_, _, _, _)
DistanceRow(prev, c, s2, row) ==
    IF Len(row) = Len(s2) + 1
    THEN row
    ELSE LET j == Len(row)
             cost == SubstitutionCost(c, s2[j])
         IN  DistanceRow(prev, c, s2,
                 Append(row, Min3(prev[j + 1] + 1, row[j] + 1, prev[j] + cost)))

RECURSIVE DistanceFrom(_, _, _, _)
DistanceFrom(s1, s2, k, prev) ==
    IF k > Len(s1)
    THEN prev[Len(s2) + 1]
    ELSE DistanceFrom(s1, s2, k + 1, DistanceRow(prev, s1[k], s2, <<k>>))

\* line 380: Levenshtein.distance(s1, s2)
LevenshteinDistance(s1, s2) == DistanceFrom(s1, s2, 1, [j \in 1..(Len(s2) + 1) |-> j - 1])

\* mutant of ArgMin: the last of the minimal entries
ArgMinLast(row) ==
    (CHOOSE k \in 1..Len(row) :
        /\ \A j \in 1..Len(row) : row[k] <= row[j]
        /\ \A j \in (k + 1)..Len(row) : row[k] < row[j]) - 1

\* line 383: np.argmin, the index of the first minimal entry
RECURSIVE ArgMinFrom(_, _, _)
ArgMinFrom(row, k, best) ==
    IF k > Len(row)
    THEN best - 1
    ELSE ArgMinFrom(row, k + 1, IF row[k] < row[best] THEN k ELSE best)

ArgMin(row) == ArgMinFrom(row, 2, 1)

\* line 376
EditCandidates(config) == config.id2label

\* lines 378-382 for every phrase: the distance of the phrase to every
\* candidate, both in lower case
EditDistances(phrases, candidate_labels) ==
    [b \in 1..Len(phrases) |->
        [k \in 1..Len(candidate_labels) |->
            LevenshteinDistance(Lower(phrases[b]), Lower(candidate_labels[k]))]]

\* lines 377-385: for every phrase the candidate at the argmin of its distances
ClosestLabels(phrases, candidate_labels) ==
    LET distances == EditDistances(phrases, candidate_labels)
    IN  [b \in 1..Len(phrases) |-> At(candidate_labels, ArgMin(distances[b]))]

\* lines 370-385
GetClosestWordEditLabels(generated_sequences, config) ==
    ClosestLabels(ExtractRawPredictions(generated_sequences), EditCandidates(config))

----------------------------------------------------------------------------
(* _extract_labels_from_generation (lines 281-292) *)

\* dataset configurations: id2label and prompt_label_mapping
\*   ("a", "b") with every prompt label equal to its label;
\*   ("a", "b") with prompt labels "ba", "ab";
\*   ("ab", "b", "a") with prompt labels "aa", "Ba", "a";
\*   ("a", "b") with prompt labels "", "b"
DatasetConfigs ==
    { [ id2label |-> << <<97>>, <<98>> >>,
        prompt_label_mapping |-> (<<97>> :> <<97>>) @@ (<<98>> :> <<98>>) ],
      [ id2label |-> << <<97>>, <<98>> >>,
        prompt_label_mapping |-> (<<97>> :> <<98, 97>>) @@ (<<98>> :> <<97, 98>>) ],
      [ id2label |-> << <<97, 98>>, <<98>>, <<97>> >>,
        prompt_label_mapping |-> (<<97, 98>> :> <<97, 97>>) @@ (<<98>> :> <<66, 97>>)
                                  @@ (<<97>> :> <<97>>) ],
      [ id2label |-> << <<97>>, <<98>> >>,
        prompt_label_mapping |-> (<<97>> :> << >>) @@ (<<98>> :> <<98>>) ] }

\* log-probabilities of one prompt at one step, one value per token id
ScoreRows == [TokenIds -> {-2, -1}]

\* rows of the steps after the first: all mass on token "a", or on token "b"
LaterRows == { [v \in TokenIds |-> IF v = w THEN -1 ELSE -2] : w \in 0..1 }

\* "scores": one [batch, vocabulary] tensor per generation step, from the rows
\* of the first step and those of the later steps
ScoreTuple(first, later) ==
    [t \in 1..(Len(later) + 1) |->
        [b \in 1..Len(first) |-> IF t = 1 THEN first[b] ELSE later[t - 1][b]]]

\* "sequences": the token ids the model can generate for one prompt
Generations == UNION { [1..len -> TokenIds] : len \in 0..MaxSteps }

\* the model runtime gives "scores" and "sequences", or "sequences" alone
RSInit ==
    /\ rs_pc = "start"
    /\ dataset_config \in DatasetConfigs
    /\ \E n \in 1..MaxItems :
          \/ \E steps \in 1..MaxSteps :
                \E first \in [1..n -> ScoreRows],
                   later \in [1..(steps - 1) -> [1..n -> LaterRows]] :
                    model_output = [ scores |-> ScoreTuple(first, later),
                                     sequences |-> [b \in 1..n |-> << >>] ]
          \/ \E sq \in [1..n -> Generations] :
                model_output = [sequences |-> sq]
    /\ rs_return = << >>
    /\ raw_predictions = << >>
    /\ edit_distances = << >>
    /\ predictions = << >>
    /\ rs_error = "none"

\* lines 281-286
ResolveFromScores ==
    /\ rs_pc = "start"
    /\ "scores" \in DOMAIN model_output
    /\ LET r == GetClosestLogprobsLabels(model_output.scores, dataset_config)
       IN  /\ rs_error' = r.raised
           /\ IF r.raised = "none"
              THEN rs_return' = <<r.labels>> /\ rs_pc' = "returned"
              ELSE rs_return' = << >> /\ rs_pc' = "raised"
    /\ UNCHANGED <<dataset_config, model_output, raw_predictions, edit_distances,
                   predictions>>
    /\ UNCHANGED <<qa_vars, nl_vars, fs_vars, pr_vars>>

\* lines 287-292
ResolveFromSequences ==
    /\ rs_pc = "start"
    /\ ~ ("scores" \in DOMAIN model_output)
    /\ raw_predictions' = ExtractRawPredictions(model_output.sequences)
    /\ edit_distances' = EditDistances(raw_predictions', EditCandidates(dataset_config))
    /\ rs_return' = <<GetClosestWordEditLabels(model_output.sequences, dataset_config)>>
    /\ rs_pc' = "returned"
    /\ UNCHANGED <<dataset_config, model_output, predictions, rs_error>>
    /\ UNCHANGED <<qa_vars, nl_vars, fs_vars, pr_vars>>

RSNext == ResolveFromScores \/ ResolveFromSequences

\* the function is called alone: the other functions stay idle
InitResolver == RSInit /\ QAIdle /\ NLIdle /\ FSIdle /\ PRIdle

SpecResolver == InitResolver /\ [][RSNext]_vars

----------------------------------------------------------------------------
(* Properties of _extract_labels_from_generation *)

\* number of prompts of the batch
BatchSize == Len(model_output.sequences)

CanonicalLabels == { dataset_config.id2label[k] : k \in 1..Len(dataset_config.id2label) }

PromptLabels == { dataset_config.prompt_label_mapping[l] : l \in CanonicalLabels }

ByScores == "scores" \in DOMAIN model_output

\* C5 (as claimed): either strategy returns one label per batch item, and every
\* returned label is a canonical label, a member of id2label
C5_CanonicalLabelPerItem ==
    rs_pc = "returned" =>
        /\ Len(rs_return[1]) = BatchSize
        /\ \A b \in 1..Len(rs_return[1]) : rs_return[1][b] \in CanonicalLabels

\* C5 (amended): either strategy returns one label per batch item; a label
\* returned by the edit-distance strategy is a canonical label, a label
\* returned by the log-probability strategy is the prompt label of a
\* canonical label
C5_OneLabelPerItem ==
    rs_pc = "returned" =>
        /\ Len(rs_return[1]) = BatchSize
        /\ \A b \in 1..Len(rs_return[1]) :
              IF ByScores
              THEN rs_return[1][b] \in PromptLabels
              ELSE rs_return[1][b] \in CanonicalLabels

\* C5 witness: the log-probability strategy returned, for a batch with fewer
\* prompts than generation steps, a prompt label that is no canonical label
C5_Witness ==
    /\ rs_pc = "returned"
    /\ ByScores
    /\ BatchSize < Len(model_output.scores)
    /\ \E b \in 1..Len(rs_return[1]) : rs_return[1][b] \notin CanonicalLabels

\* the representative token id of the k-th candidate: the first token of its
\* prompt label in lower case
RepresentativeId(k) ==
    TokenizeText(Lower(dataset_config.prompt_label_mapping[dataset_config.id2label[k]]))[1]

\* the log-probability of the k-th candidate for prompt b at generation step 0
FirstStepLogprob(b, k) == model_output.scores[1][b][RepresentativeId(k)]

\* C10: for every prompt, the label returned by the log-probability strategy
\* is the prompt label of the first candidate, in id2label order, whose
\* representative token has the maximal log-probability at generation step 0
C10_FirstMaximumAtStepZero ==
    (rs_pc = "returned" /\ ByScores) =>
        \A b \in 1..BatchSize :
            \E k \in 1..Len(dataset_config.id2label) :
                /\ rs_return[1][b] = dataset_config.prompt_label_mapping[dataset_config.id2label[k]]
                /\ \A j \in 1..Len(dataset_config.id2label) :
                      FirstStepLogprob(b, j) <= FirstStepLogprob(b, k)
                /\ \A j \in 1..(k - 1) : FirstStepLogprob(b, j) < FirstStepLogprob(b, k)

\* C10 witness: two prompts got different labels; for one of them two
\* candidates with different representative tokens tie at the maximum of step
\* 0, and the second generation step puts the other candidate first
C10_Witness ==
    /\ rs_pc = "returned"
    /\ ByScores
    /\ Len(model_output.scores) >= 2
    /\ BatchSize >= 2
    /\ rs_return[1][1] # rs_return[1][2]
    /\ \E b \in 1..BatchSize :
          /\ RepresentativeId(1) # RepresentativeId(2)
          /\ FirstStepLogprob(b, 1) = FirstStepLogprob(b, 2)
          /\ \A j \in 1..Len(dataset_config.id2label) :
                FirstStepLogprob(b, j) <= FirstStepLogprob(b, 1)
          /\ model_output.scores[2][b][RepresentativeId(1)]
                < model_output.scores[2][b][RepresentativeId(2)]
          /\ rs_return[1][b] = dataset_config.prompt_label_mapping[dataset_config.id2label[1]]

----------------------------------------------------------------------------
(* Properties of get_closest_logprobs_labels on candidates without tokens *)

\* the k-th candidate's prompt label has no token
EmptyTokenisation(k) ==
    TokenizeText(Lower(dataset_config.prompt_label_mapping[dataset_config.id2label[k]])) = << >>

\* C15: when the prompt label of some candidate tokenises to no token, the
\* log-probability strategy fails with an error and returns no label
C15_EmptyTokenisationRaises ==
    (/\ rs_pc # "start"
     /\ ByScores
     /\ \E k \in 1..Len(dataset_config.id2label) : EmptyTokenisation(k)) =>
        /\ rs_pc = "raised"
        /\ rs_error # "none"
        /\ rs_return = << >>

\* C15 witness: the strategy raised for a batch of several prompts and several
\* generation steps, with a candidate whose prompt label has no token
C15_Witness ==
    /\ rs_pc = "raised"
    /\ rs_error = "IndexError"
    /\ ByScores
    /\ BatchSize >= 2
    /\ Len(model_output.scores) >= 2
    /\ \E k \in 1..Len(dataset_config.id2label) : EmptyTokenisation(k)

----------------------------------------------------------------------------
(* get_closest_word_edit_labels on decoded phrases (lines 376-385) *)

\* number of decoded phrases of a batch
MaxPhrases == 2

Positive == <<112, 111, 115, 105, 116, 105, 118, 101>>
Negative == <<110, 101, 103, 97, 116, 105, 118, 101>>
Neutral == <<110, 101, 117, 116, 114, 97, 108>>
Negetive == <<78, 101, 103, 101, 116, 105, 118, 101>>

\* phrases a model can answer a sentiment prompt with: the candidates as they
\* are, capitalised, in upper case, misspelt, cut short, and no text at all
Phrases ==
    { Positive, Negative, Neutral, Negetive,
      <<80, 111, 115, 105, 116, 105, 118, 101>>,
      <<78, 69, 71, 65, 84, 73, 86, 69>>,
      <<78, 101, 117, 116, 114, 97, 108>>,
      <<116, 105, 118, 101>>,
      <<110, 101, 103, 97, 116, 105, 118>>,
      << >> }

\* id2label of a sentiment task with two or three labels
SentimentLabels ==
    { <<Positive, Negative>>, <<Negative, Positive>>, <<Positive, Neutral, Negative>> }

\* the state at line 376: extract_raw_predictions has decoded the phrases
WEInit ==
    /\ rs_pc = "decoded"
    /\ \E labels \in SentimentLabels : dataset_config = [id2label |-> labels]
    /\ \E n \in 1..MaxPhrases : raw_predictions \in [1..n -> Phrases]
    /\ model_output = << >>
    /\ edit_distances = << >>
    /\ predictions = << >>
    /\ rs_return = << >>
    /\ rs_error = "none"

\* lines 376-385
WordEditLabels ==
    /\ rs_pc = "decoded"
    /\ edit_distances' = EditDistances(raw_predictions, EditCandidates(dataset_config))
    /\ rs_return' = <<ClosestLabels(raw_predictions, EditCandidates(dataset_config))>>
    /\ rs_pc' = "returned"
    /\ UNCHANGED <<dataset_config, model_output, raw_predictions, predictions, rs_error>>
    /\ UNCHANGED <<qa_vars, nl_vars, fs_vars, pr_vars>>

WENext == WordEditLabels

InitWordEdit == WEInit /\ QAIdle /\ NLIdle /\ FSIdle /\ PRIdle

SpecWordEdit == InitWordEdit /\ [][WENext]_vars

----------------------------------------------------------------------------
(* Properties of get_closest_word_edit_labels *)

\* candidate k is the first candidate of id2label at minimal distance of phrase b
FirstClosest(b, k) ==
    /\ \A j \in 1..Len(dataset_config.id2label) : edit_distances[b][k] <= edit_distances[b][j]
    /\ \A j \in 1..(k - 1) : edit_distances[b][k] < edit_distances[b][j]

\* C11: for every raw predicted phrase the edit-distance strategy returns the
\* candidate of id2label at minimal Levenshtein distance between the phrase in
\* lower case and the candidate in lower case, the first such candidate in
\* id2label order when several tie
C11_FirstMinimalEditDistance ==
    rs_pc = "returned" =>
        /\ Len(rs_return[1]) = Len(raw_predictions)
        /\ \A b \in 1..Len(raw_predictions) :
              /\ \A k \in 1..Len(dataset_config.id2label) :
                    edit_distances[b][k] =
                        LevenshteinDistance(Lower(raw_predictions[b]),
                                            Lower(dataset_config.id2label[k]))
              /\ \E k \in 1..Len(dataset_config.id2label) :
                    /\ rs_return[1][b] = dataset_config.id2label[k]
                    /\ FirstClosest(b, k)

\* C11 witness: the strategy returned different labels for two phrases; one
\* is at the same minimal distance of the first two candidates and got the
\* first, the other is an upper-case phrase that got a candidate other than
\* the first at distance 0
C11_Witness ==
    /\ rs_pc = "returned"
    /\ Len(raw_predictions) = 2
    /\ rs_return[1][1] # rs_return[1][2]
    /\ \E b \in 1..2 :
          /\ edit_distances[b][1] = edit_distances[b][2]
          /\ FirstClosest(b, 1)
          /\ rs_return[1][b] = dataset_config.id2label[1]
    /\ \E b \in 1..2 :
          /\ raw_predictions[b] # Lower(raw_predictions[b])
          /\ rs_return[1][b] # dataset_config.id2label[1]
          /\ rs_return[1][b] = Lower(raw_predictions[b])

\* the decoded text "Negetive" is phrase b of a batch resolved against the
\* candidates "positive", "negative"
NegetiveResolved(b) ==
    /\ rs_pc = "returned"
    /\ dataset_config.id2label = <<Positive, Negative>>
    /\ b \in 1..Len(raw_predictions)
    /\ raw_predictions[b] = Negetive

\* C16 (as claimed): for the decoded text "Negetive" and the candidates
\* "positive", "negative" the strategy computes the distances 8 and 1 and
\* returns "negative"
C16_DistancesEightAndOne ==
    \A b \in 1..MaxPhrases :
        NegetiveResolved(b) =>
            /\ edit_distances[b] = <<8, 1>>
            /\ rs_return[1][b] = Negative

\* C16 (amended): for the decoded text "Negetive" and the candidates
\* "positive", "negative" the strategy computes the distances 4 and 1 and
\* returns "negative"
C16_DistancesFourAndOne ==
    \A b \in 1..MaxPhrases :
        NegetiveResolved(b) =>
            /\ edit_distances[b] = <<4, 1>>
            /\ rs_return[1][b] = Negative

\* C16 witness: "Negetive" was resolved to "negative" next to another phrase
\* of the batch that was resolved to "positive"
C16_Witness ==
    /\ \E b \in 1..MaxPhrases : NegetiveResolved(b) /\ rs_return[1][b] = Negative
    /\ \E b \in 1..Len(rs_return[1]) : rs_return[1][b] = Positive

----------------------------------------------------------------------------
(* _compute_metrics on the labels of _extract_labels_from_generation        *)
(* (lines 154-163)                                                          *)

\* lines 154-157: the dictionary from prompt label to label
PromptLabelToLabelMapping(config) ==
    LET mapping == config.prompt_label_mapping
    IN  [prompt_label \in { mapping[label] : label \in DOMAIN mapping } |->
            CHOOSE label \in DOMAIN mapping : mapping[label] = prompt_label]

\* lines 158-163 for one prediction: the dictionary lookup of pred.lower(), a
\* KeyError for a missing key, then id2label.index
PredictionIndex(pred, config) ==
    LET prompt_label_to_label_mapping == PromptLabelToLabelMapping(config)
    IN  IF Lower(pred) \notin DOMAIN prompt_label_to_label_mapping
        THEN [raised |-> "KeyError", index |-> << >>]
        ELSE IF \A k \in 1..Len(config.id2label) :
                    config.id2label[k] # prompt_label_to_label_mapping[Lower(pred)]
        THEN [raised |-> "ValueError", index |-> << >>]
        ELSE [raised |-> "none",
              index |-> <<IndexOf(config.id2label, prompt_label_to_label_mapping[Lower(pred)])>>]

\* the first exception of the list comprehension of lines 158-163, or "none"
RECURSIVE FirstRaised(_, _)
FirstRaised(preds, config) ==
    IF preds = << >> THEN "none"
    ELSE IF PredictionIndex(Head(preds), config).raised # "none"
    THEN PredictionIndex(Head(preds), config).raised
    ELSE FirstRaised(Tail(preds), config)

\* lines 154-163 on the labels returned by _extract_labels_from_generation
ComputeMetrics ==
    /\ rs_pc = "returned"
    /\ LET raised == FirstRaised(rs_return[1], dataset_config)
       IN  IF raised = "none"
           THEN /\ predictions' = [b \in 1..Len(rs_return[1]) |->
                                      PredictionIndex(rs_return[1][b], dataset_config).index[1]]
                /\ rs_pc' = "converted"
                /\ rs_error' = "none"
           ELSE /\ predictions' = << >>
                /\ rs_pc' = "conversion raised"
                /\ rs_error' = raised
    /\ UNCHANGED <<dataset_config, model_output, rs_return, raw_predictions, edit_distances>>
    /\ UNCHANGED <<qa_vars, nl_vars, fs_vars, pr_vars>>

MetricsNext == ResolveFromScores \/ ResolveFromSequences \/ ComputeMetrics

\* the labels are resolved from a model output, then converted to indices
SpecMetrics == InitResolver /\ [][MetricsNext]_vars

\* canonical labels and prompt labels are in bijection and the prompt labels
\* are non-empty and in lower case
IsLabelCandidateSet ==
    /\ \A l \in CanonicalLabels : dataset_config.prompt_label_mapping[l] # << >>
    /\ \A k, j \in 1..Len(dataset_config.id2label) :
          dataset_config.prompt_label_mapping[dataset_config.id2label[k]]
              = dataset_config.prompt_label_mapping[dataset_config.id2label[j]] => k = j
    /\ \A l \in CanonicalLabels :
          dataset_config.prompt_label_mapping[l] = Lower(dataset_config.prompt_label_mapping[l])

\* C18 (as claimed): with canonical and prompt labels in bijection, equal or
\* not, the labels returned under either strategy are converted by
\* _compute_metrics without an exception, each into a valid index of id2label
C18_ReturnedLabelsConvert ==
    IsLabelCandidateSet =>
        /\ rs_pc # "conversion raised"
        /\ rs_pc = "converted" =>
              /\ Len(predictions) = BatchSize
              /\ \A b \in 1..Len(predictions) :
                    predictions[b] \in 0..(Len(dataset_config.id2label) - 1)

----------------------------------------------------------------------------
(* prepare_test_examples (lines 233-300) *)

\* mutant of MaskOffsets: only the special and padding tokens are masked
MaskOffsetsOfSpecialTokens(offsets, sequence_ids) ==
    [k \in 1..Len(offsets) |-> IF sequence_ids[k] # -1 THEN offsets[k] ELSE <<-1, -1>>]

\* lines 295-298: (-1, -1) for every token whose sequence id is not context_index
MaskOffsets(offsets, sequence_ids) ==
    LET context_index == 1
    IN  [k \in 1..Len(offsets) |->
            IF sequence_ids[k] = context_index THEN offsets[k] ELSE <<-1, -1>>]

\* examples["id"] of a batch
ExampleIds == <<"id-0", "id-1">>

\* test Examples have no answers; the tokenizer needs room for more context
\* tokens than the stride
TestExamples ==
    { ex \in [nq : 1..MaxQ, context : Contexts] : Capacity(ex.nq) > Stride }

\* Examples that share the batch with the Example under study
TestFillers ==
    { [nq |-> 1, context |-> ContextOffsets(1, 1)],
      [nq |-> 1, context |-> ContextOffsets(MaxCtx, 0)] }

\* the batch with its "id" column
WithIds(batch) ==
    [k \in 1..Len(batch) |->
        [nq |-> batch[k].nq, context |-> batch[k].context, id |-> ExampleIds[k]]]

TestBatches ==
    { WithIds(<<ex>>) : ex \in TestExamples }
    \cup { WithIds(<<f, ex>>) : f \in TestFillers, ex \in TestExamples }
    \cup { WithIds(<<ex, f>>) : f \in TestFillers, ex \in TestExamples }

QATestInit ==
    /\ qa_pc = "test start"
    /\ examples \in TestBatches
    /\ windows = << >>
    /\ i = 0
    /\ start_positions = << >>
    /\ end_positions = << >>
    /\ sample_mapping = << >>
    /\ window_ids = << >>
    /\ qa_error = "none"

\* lines 252-279: tokenize the batch, pop the overflow mapping, create the
\* empty id list
TestTokenize ==
    /\ qa_pc = "test start"
    /\ LET tokenized_examples == Tokenizer(examples, 0)
       IN  /\ sample_mapping' = [j \in 1..Len(tokenized_examples) |->
                                    tokenized_examples[j].overflow_to_sample_mapping]
           /\ windows' = [j \in 1..Len(tokenized_examples) |->
                             [ input_ids |-> tokenized_examples[j].input_ids,
                               offset_mapping |-> tokenized_examples[j].offset_mapping,
                               sequence_ids |-> tokenized_examples[j].sequence_ids ]]
    /\ window_ids' = << >>
    /\ i' = 0
    /\ qa_pc' = "test loop"
    /\ UNCHANGED <<examples, start_positions, end_positions, qa_error>>
    /\ UNCHANGED <<nl_vars, fs_vars, rs_vars, pr_vars>>

\* lines 281-298: one iteration of the loop
TestMaskWindow ==
    /\ qa_pc = "test loop"
    /\ i < Len(windows)
    /\ LET sequence_ids == At(windows, i).sequence_ids
           sample_index == At(sample_mapping, i)
       IN  /\ window_ids' = Append(window_ids, At(examples, sample_index).id)
           /\ windows' = [windows EXCEPT ![i + 1].offset_mapping =
                                            MaskOffsets(@, sequence_ids)]
    /\ i' = i + 1
    /\ UNCHANGED <<qa_pc, examples, sample_mapping, start_positions, end_positions, qa_error>>
    /\ UNCHANGED <<nl_vars, fs_vars, rs_vars, pr_vars>>

\* line 300
TestReturn ==
    /\ qa_pc = "test loop"
    /\ i = Len(windows)
    /\ qa_pc' = "test returned"
    /\ UNCHANGED <<examples, windows, i, sample_mapping, window_ids, start_positions,
                   end_positions, qa_error>>
    /\ UNCHANGED <<nl_vars, fs_vars, rs_vars, pr_vars>>

QATestNext == TestTokenize \/ TestMaskWindow \/ TestReturn

InitQATest == QATestInit /\ NLIdle /\ FSIdle /\ RSIdle /\ PRIdle

SpecQATest == InitQATest /\ [][QATestNext]_vars

----------------------------------------------------------------------------
(* Properties of prepare_test_examples *)

\* what the tokenizer reported for the j-th Window (j >= 1)
Reported(j) == Tokenizer(examples, 0)[j]

\* C12: in the returned test Windows every token whose sequence id is not 1
\* has the offset (-1, -1), every context token keeps the offset reported by
\* the tokenizer, and the id of the i-th Window is the id of the Example the
\* overflow-to-sample mapping names for it
C12_TestOffsetsAndIds ==
    qa_pc = "test returned" =>
        /\ Len(windows) = Len(Tokenizer(examples, 0))
        /\ Len(window_ids) = Len(windows)
        /\ \A j \in 1..Len(windows) :
              /\ window_ids[j] = examples[Reported(j).overflow_to_sample_mapping + 1].id
              /\ Len(windows[j].offset_mapping) = Len(Reported(j).offset_mapping)
              /\ \A k \in 1..Len(windows[j].offset_mapping) :
                    IF Reported(j).sequence_ids[k] = 1
                    THEN windows[j].offset_mapping[k] = Reported(j).offset_mapping[k]
                    ELSE windows[j].offset_mapping[k] = <<-1, -1>>

\* C12 witness: a batch of two Examples was returned; the first Example has
\* several Windows, so that a Window of the second has another index than its
\* Example, and in some Window a question token was reported at the character
\* position at which one of its context tokens starts
C12_Witness ==
    /\ qa_pc = "test returned"
    /\ Len(examples) = 2
    /\ Len(windows) > 2
    /\ sample_mapping[2] = 0
    /\ window_ids[Len(window_ids)] = "id-1"
    /\ \E j \in 1..Len(windows) :
          \E k, c \in 1..Len(windows[j].offset_mapping) :
              /\ Reported(j).sequence_ids[k] = 0
              /\ Reported(j).sequence_ids[c] = 1
              /\ Reported(j).offset_mapping[k][1] = Reported(j).offset_mapping[c][1]
              /\ windows[j].offset_mapping[k] = <<-1, -1>>
              /\ windows[j].offset_mapping[c] = Reported(j).offset_mapping[c]

----------------------------------------------------------------------------
(* Termination of the labelling loop of prepare_train_examples *)

\* C17 (as claimed): for every batch prepare_train_examples raises no index
\* error and appends, for every Window it has labelled, exactly one start and
\* one end position, both indices of tokens of the Window; this includes
\* answers of length zero and answers in the last context token
C17_NoIndexErrorValidPositions ==
    /\ qa_error # "IndexError"
    /\ qa_pc \in {"loop", "returned"} =>
          /\ Len(start_positions) = i
          /\ Len(end_positions) = i
          /\ \A j \in 1..i :
                /\ start_positions[j] \in 0..(Len(windows[j].input_ids) - 1)
                /\ end_positions[j] \in 0..(Len(windows[j].input_ids) - 1)
    /\ qa_pc = "returned" => i = Len(windows)

----------------------------------------------------------------------------
(* _apply_few_shot_prompt (lines 230-258)                                   *)
(* Characters: 120 "x", 121 "y", 122 "z", 58 ":", 61 "=", 112 "p",          *)
(* 32 space, 10 line break.                                                 *)

\* few-shot examples of a call
MaxShots == 2

\* characters of an evaluation text
MaxTextLen == 4

\* the characters str.strip() removes
IsWhitespace(c) == c \in {9, 10, 11, 12, 13, 32}

\* mutant of ReplaceLineBreaks: the text as it is
KeepLineBreaks(text) == text

\* text.replace("\n", " ") (lines 234, 249)
ReplaceLineBreaks(text) == [k \in 1..Len(text) |-> IF text[k] = 10 THEN 32 ELSE text[k]]

RECURSIVE LStrip(_)
LStrip(text) ==
    IF text # << >> /\ IsWhitespace(Head(text)) THEN LStrip(Tail(text)) ELSE text

RECURSIVE RStrip(_)
RStrip(text) ==
    IF text # << >> /\ IsWhitespace(text[Len(text)])
    THEN RStrip(SubSeq(text, 1, Len(text) - 1))
    ELSE text

\* str.strip()
Strip(text) == RStrip(LStrip(text))

\* prompt_template.format(text=..., label=...): the template is the sequence
\* of its literal parts and replacement fields
RECURSIVE Format(_, _, _)
Format(template, text, label) ==
    IF template = << >> THEN << >>
    ELSE LET part == Head(template)
             rendered == IF "literal" \in DOMAIN part THEN part.literal
                         ELSE IF part.field = "text" THEN text
                         ELSE label
         IN  rendered \o Format(Tail(template), text, label)

DoubleLineBreak == <<10, 10>>

\* "\n\n".join(prompts)
RECURSIVE Join(_)
Join(prompts) ==
    IF prompts = << >> THEN << >>
    ELSE IF Len(prompts) = 1 THEN prompts[1]
    ELSE prompts[1] \o DoubleLineBreak \o Join(Tail(prompts))

\* mutant of PromptPrefix: the double line break also without a prefix
PromptPrefixAlways(config) == config.prompt_prefix \o DoubleLineBreak

\* lines 239-241
PromptPrefix(config) ==
    IF config.prompt_prefix # << >>
    THEN config.prompt_prefix \o DoubleLineBreak
    ELSE << >>

\* lines 232-238 for one few-shot example
FewShotPrompt(example, config) ==
    Format(config.prompt_template,
           Strip(ReplaceLineBreaks(example.text)),
           config.prompt_label_mapping[Lower(example.label)])

\* lines 247-252 for one evaluation text
NewPrompt(text, config) ==
    Strip(Format(config.prompt_template, Strip(ReplaceLineBreaks(text)), << >>))

\* lines 231-256: the new "text" column
ApplyFewShotPrompt(texts, shots, config) ==
    LET few_shot_prompts == [k \in 1..Len(shots) |-> FewShotPrompt(shots[k], config)]
        few_shot_prompt == PromptPrefix(config) \o Join(few_shot_prompts)
        new_prompts == [k \in 1..Len(texts) |-> NewPrompt(texts[k], config)]
    IN  [k \in 1..Len(texts) |-> few_shot_prompt \o DoubleLineBreak \o new_prompts[k]]

\* "x: {text}\ny: {label}" and "{text}={label}"
PromptTemplates ==
    { << [literal |-> <<120, 58, 32>>], [field |-> "text"],
         [literal |-> <<10, 121, 58, 32>>], [field |-> "label"] >>,
      << [field |-> "text"], [literal |-> <<61>>], [field |-> "label"] >> }

\* no prefix, or the prefix "p"
PromptPrefixes == { << >>, <<112>> }

\* labels "a" and "b" with the prompt labels "y" and "z"
PromptLabelMapping == (<<97>> :> <<121>>) @@ (<<98>> :> <<122>>)

PromptConfigs ==
    [prompt_template : PromptTemplates, prompt_prefix : PromptPrefixes,
     prompt_label_mapping : {PromptLabelMapping}]

\* few-shot examples: "x" with label "a", "\nx\n\nx " with label "B", and
\* "x x" with the label "c" that the mapping does not have
ShotExamples ==
    { [text |-> <<120>>, label |-> <<97>>],
      [text |-> <<10, 120, 10, 10, 120, 32>>, label |-> <<66>>],
      [text |-> <<120, 32, 120>>, label |-> <<99>>] }

ShotLists == UNION { [1..n -> ShotExamples] : n \in 0..MaxShots }

\* evaluation texts: "x", spaces and line breaks
EvaluationTexts == UNION { [1..n -> {120, 32, 10}] : n \in 0..MaxTextLen }

\* a text that may precede the text under study in the batch: "x\nx"
TextFillers == { <<120, 10, 120>> }

PRInit ==
    /\ pr_pc = "start"
    /\ pr_config \in PromptConfigs
    /\ pr_few_shot_examples \in ShotLists
    /\ \E text \in EvaluationTexts :
          \/ pr_examples = <<text>>
          \/ \E filler \in TextFillers : pr_examples = <<filler, text>>
    /\ pr_return = << >>
    /\ pr_error = "none"

\* lines 231-258; the dictionary lookup of line 236 raises KeyError for a
\* label that the mapping does not have
ApplyPrompt ==
    /\ pr_pc = "start"
    /\ IF \E k \in 1..Len(pr_few_shot_examples) :
             Lower(pr_few_shot_examples[k].label) \notin DOMAIN pr_config.prompt_label_mapping
       THEN /\ pr_pc' = "raised"
            /\ pr_error' = "KeyError"
            /\ pr_return' = << >>
       ELSE /\ pr_pc' = "returned"
            /\ pr_error' = "none"
            /\ pr_return' = <<ApplyFewShotPrompt(pr_examples, pr_few_shot_examples, pr_config)>>
    /\ UNCHANGED <<pr_config, pr_few_shot_examples, pr_examples>>
    /\ UNCHANGED <<qa_vars, nl_vars, fs_vars, rs_vars>>

PRNext == ApplyPrompt

InitPrompt == PRInit /\ QAIdle /\ NLIdle /\ FSIdle /\ RSIdle

SpecPrompt == InitPrompt /\ [][PRNext]_vars

----------------------------------------------------------------------------
(* Properties of _apply_few_shot_prompt *)

\* the text the code substitutes for a given input text
SubstitutedText(text) == Strip(ReplaceLineBreaks(text))

\* the rendering of the k-th few-shot example, with its prompt label
ShotRendering(k) ==
    Format(pr_config.prompt_template,
           SubstitutedText(pr_few_shot_examples[k].text),
           pr_config.prompt_label_mapping[Lower(pr_few_shot_examples[k].label)])

\* the renderings of the first n few-shot examples, a double line break
\* between each two
RECURSIVE ShotRenderings(_)
ShotRenderings(n) ==
    IF n = 0 THEN << >>
    ELSE IF n = 1 THEN ShotRendering(1)
    ELSE ShotRenderings(n - 1) \o <<10, 10>> \o ShotRendering(n)

\* the prefix and a double line break when a prefix is configured, then the
\* renderings of the few-shot examples, then a double line break
FewShotBlock ==
    (IF pr_config.prompt_prefix = << >> THEN << >> ELSE pr_config.prompt_prefix \o <<10, 10>>)
    \o ShotRenderings(Len(pr_few_shot_examples)) \o <<10, 10>>

\* the template rendering of the j-th evaluation text with the label empty
EvaluationRendering(j) ==
    Format(pr_config.prompt_template, SubstitutedText(pr_examples[j]), << >>)

\* C13 (as claimed): every prompt is exactly the optional prefix with a double
\* line break, the few-shot renderings joined by double line breaks, a double
\* line break, and the template rendering of the evaluation text with the
\* label placeholder empty; the few-shot block is the same for every text
C13_PromptIsBlockAndRendering ==
    pr_pc = "returned" =>
        /\ Len(pr_return[1]) = Len(pr_examples)
        /\ \A j \in 1..Len(pr_examples) :
              pr_return[1][j] = FewShotBlock \o EvaluationRendering(j)

\* C13 (amended): as claimed, with the rendering of the evaluation text
\* stripped of its leading and trailing whitespace
C13_PromptIsBlockAndStrippedRendering ==
    pr_pc = "returned" =>
        /\ Len(pr_return[1]) = Len(pr_examples)
        /\ \A j \in 1..Len(pr_examples) :
              pr_return[1][j] = FewShotBlock \o Strip(EvaluationRendering(j))

\* C13 witness: prompts were returned for two evaluation texts, with a prefix
\* and two few-shot examples, and the rendering of an evaluation text ends in
\* whitespace
C13_Witness ==
    /\ pr_pc = "returned"
    /\ pr_config.prompt_prefix # << >>
    /\ Len(pr_few_shot_examples) = 2
    /\ Len(pr_examples) = 2
    /\ pr_return[1][1] # pr_return[1][2]
    /\ \E j \in 1..2 : EvaluationRendering(j) # Strip(EvaluationRendering(j))

\* the positions of the characters of a text that are neither spaces nor
\* line breaks
Inked(text) == { k \in 1..Len(text) : text[k] \notin {10, 32} }

\* the text between its first and its last character that is neither a space
\* nor a line break
Trimmed(text) ==
    IF Inked(text) = {} THEN << >>
    ELSE SubSeq(text,
                CHOOSE k \in Inked(text) : \A j \in Inked(text) : k <= j,
                CHOOSE k \in Inked(text) : \A j \in Inked(text) : j <= k)

\* the text without the line breaks that follow a line break
RECURSIVE WithoutRepeatedBreaks(_)
WithoutRepeatedBreaks(text) ==
    IF Len(text) < 2 THEN text
    ELSE IF text[1] = 10 /\ text[2] = 10 THEN WithoutRepeatedBreaks(Tail(text))
    ELSE <<text[1]>> \o WithoutRepeatedBreaks(Tail(text))

\* every line break of the text turned into a space
BreaksAsSpaces(text) == [k \in 1..Len(text) |-> IF text[k] = 10 THEN 32 ELSE text[k]]

\* every run of line breaks collapsed to one space, the result trimmed
CollapsedText(text) == Trimmed(BreaksAsSpaces(WithoutRepeatedBreaks(text)))

\* every line break replaced by one space, the result trimmed
SpacedText(text) == Trimmed(BreaksAsSpaces(text))

\* the prompts when normalise(text) is substituted for every text
RECURSIVE ShotsWith(_, _)
ShotsWith(normalise(_), n) ==
    LET rendering(k) ==
            Format(pr_config.prompt_template,
                   normalise(pr_few_shot_examples[k].text),
                   pr_config.prompt_label_mapping[Lower(pr_few_shot_examples[k].label)])
    IN  IF n = 0 THEN << >>
        ELSE IF n = 1 THEN rendering(1)
        ELSE ShotsWith(normalise, n - 1) \o <<10, 10>> \o rendering(n)

PromptWith(normalise(_), j) ==
    PromptPrefix(pr_config) \o ShotsWith(normalise, Len(pr_few_shot_examples)) \o <<10, 10>>
    \o Strip(Format(pr_config.prompt_template, normalise(pr_examples[j]), << >>))

\* C14 (as claimed): the text substituted for every few-shot and evaluation
\* text is the text with each run of line breaks collapsed to a single space
\* and trimmed: no line break, and no two adjacent spaces from consecutive
\* line breaks
C14_RunsOfBreaksCollapsed ==
    pr_pc = "returned" =>
        \A j \in 1..Len(pr_examples) : pr_return[1][j] = PromptWith(CollapsedText, j)

\* C14 (amended): the text substituted for every few-shot and evaluation text
\* is the text with each line break replaced by a single space and trimmed;
\* it has no line break
C14_EachBreakReplaced ==
    pr_pc = "returned" =>
        /\ \A j \in 1..Len(pr_examples) :
              /\ pr_return[1][j] = PromptWith(SpacedText, j)
              /\ \A k \in 1..Len(SpacedText(pr_examples[j])) : SpacedText(pr_examples[j])[k] # 10
        /\ \A n \in 1..Len(pr_few_shot_examples) :
              \A k \in 1..Len(SpacedText(pr_few_shot_examples[n].text)) :
                  SpacedText(pr_few_shot_examples[n].text)[k] # 10

\* C14 witness: prompts were returned for an evaluation text with two
\* consecutive line breaks between two other characters, and for a few-shot
\* text that begins with a line break and ends with a space
C14_Witness ==
    /\ pr_pc = "returned"
    /\ \E j \in 1..Len(pr_examples) :
          \E k \in 2..(Len(pr_examples[j]) - 2) :
              /\ pr_examples[j][k] = 10
              /\ pr_examples[j][k + 1] = 10
              /\ pr_examples[j][k - 1] = 120
              /\ pr_examples[j][k + 2] = 120
    /\ \E n \in 1..Len(pr_few_shot_examples) :
          /\ Head(pr_few_shot_examples[n].text) = 10
          /\ pr_few_shot_examples[n].text[Len(pr_few_shot_examples[n].text)] = 32

====
